---- MODULE Spec2Model ----
(***************************************************************************)
(* Ponse: a man-in-the-middle proxy for the iRTSP protocol.                *)
(*                                                                         *)
(* The model has three layers, each translated from the Go source:         *)
(*   - the message codec (NewMessage, Message.ToBytes) over byte strings,  *)
(*     a byte string being a sequence of one-character strings;            *)
(*   - the primary session loop handleIRTSPConnection with the side-       *)
(*     channel spawner startMediaConnection;                               *)
(*   - the duplex relay handleMediaConnection with its two copy            *)
(*     goroutines and its WaitGroup.                                       *)
(*                                                                         *)
(* An unrecovered Go panic (index out of range) ends the whole process: it *)
(* is the state  crashed = TRUE , in which no goroutine takes a step.      *)
(***************************************************************************)
EXTENDS Integers, Sequences, FiniteSets, TLC

(***************************************************************************)
(* Bounds of the model.                                                    *)
(***************************************************************************)
\* rounds of the primary session loop that read new input
MaxRounds == 2
\* relays started while the primary session runs
MaxRelays == 1
\* relays of the relay specification
MaxStreams == 1
\* bytes a relay reads from one endpoint
MaxData == 2
\* headers of a message given to the encoder
MaxHeaders == 2
\* relays that run side by side in the specification of concurrent relays
MaxConcurrent == 2

(***************************************************************************)
(* Byte strings.                                                           *)
(***************************************************************************)
CR == "\r"
LF == "\n"
CRLF == <<CR, LF>>

Digits == <<"0", "1", "2", "3", "4", "5", "6", "7", "8", "9">>

DigitVal(c) == CHOOSE d \in 0..9 : Digits[d + 1] = c

IsDigit(c) == \E d \in 1..10 : Digits[d] = c

\* s[from..] ; the empty string when from is past the end
Drop(s, from) == SubSeq(s, from, Len(s))

\* s[..to]
Take(s, to) == SubSeq(s, 1, to)

HasPrefixAt(s, i, sep) ==
    /\ i + Len(sep) - 1 <= Len(s)
    /\ SubSeq(s, i, i + Len(sep) - 1) = sep

\* the first position from i on where sep occurs in s, 0 when there is none
RECURSIVE IndexFrom(_, _, _)
IndexFrom(s, sep, i) ==
    IF i + Len(sep) - 1 > Len(s)
    THEN 0
    ELSE IF HasPrefixAt(s, i, sep)
    THEN i
    ELSE IndexFrom(s, sep, i + 1)

\* strings.Index: the first position where sep occurs in s, 0 when it does not
Index(s, sep) == IndexFrom(s, sep, 1)

\* strings.Cut(s, sep): before, after, found
Cut(s, sep) ==
    LET i == Index(s, sep)
    IN IF i = 0
       THEN [before |-> s, after |-> <<>>, found |-> FALSE]
       ELSE [before |-> Take(s, i - 1),
             after |-> Drop(s, i + Len(sep)),
             found |-> TRUE]

\* strings.ReplaceAll(s, old, new), old non-empty
RECURSIVE ReplaceAll(_, _, _)
ReplaceAll(s, old, new) ==
    LET i == Index(s, old)
    IN IF i = 0
       THEN s
       ELSE Take(s, i - 1) \o new \o ReplaceAll(Drop(s, i + Len(old)), old, new)

\* strings.Split(s, sep), sep non-empty: always at least one element
RECURSIVE Split(_, _)
Split(s, sep) ==
    LET i == Index(s, sep)
    IN IF i = 0
       THEN <<s>>
       ELSE <<Take(s, i - 1)>> \o Split(Drop(s, i + Len(sep)), sep)

\* strings.TrimRight(s, cutset) for a one-character cutset: every trailing
\* occurrence of the character is removed
RECURSIVE TrimRight(_, _)
TrimRight(s, c) ==
    IF Len(s) > 0 /\ s[Len(s)] = c
    THEN TrimRight(Take(s, Len(s) - 1), c)
    ELSE s

RECURSIVE DigitsValue(_)
DigitsValue(s) ==
    IF Len(s) = 0
    THEN 0
    ELSE 10 * DigitsValue(Take(s, Len(s) - 1)) + DigitVal(s[Len(s)])

\* strconv.Atoi: an optional sign, then one or more decimal digits
Atoi(s) ==
    LET signed == Len(s) > 0 /\ s[1] \in {"+", "-"}
        body == IF signed THEN Drop(s, 2) ELSE s
    IN IF Len(body) = 0 \/ \E i \in 1..Len(body) : ~IsDigit(body[i])
       THEN [ok |-> FALSE, val |-> 0]
       ELSE [ok |-> TRUE,
             val |-> IF signed /\ s[1] = "-"
                     THEN 0 - DigitsValue(body)
                     ELSE DigitsValue(body)]

RECURSIVE NatToStr(_)
NatToStr(n) ==
    IF n < 10
    THEN <<Digits[n + 1]>>
    ELSE NatToStr(n \div 10) \o <<Digits[(n % 10) + 1]>>

\* fmt.Sprintf("%d", n)
Itoa(n) == IF n < 0 THEN <<"-">> \o NatToStr(0 - n) ELSE NatToStr(n)

(***************************************************************************)
(* The message codec.                                                      *)
(***************************************************************************)
StrSubmit == <<"S", "u", "b", "m", "i", "t">>
StrSeq == <<"S", "e", "q">>
StrSET == <<"S", "E", "T">>
StrRSP == <<"R", "S", "P">>
StrSETUP == <<"S", "E", "T", "U", "P">>
StrKNOCK == <<"K", "N", "O", "C", "K">>
StrSTART == <<"S", "T", "A", "R", "T">>
StrPLAY == <<"P", "L", "A", "Y">>
StrSc == <<"s", "c">>
StrTls == <<"t", "l", "s">>
StrV == <<"v">>
StrA == <<"a">>
StrC == <<"c">>
StrP == <<"p">>
StrUst == <<"u", "s", "t">>
StrUdp == <<"u", "d", "p">>
StrTcp == <<"t", "c", "p">>

\* the empty Go map
NoHeaders == <<>>

\* &Message{Headers: make(map[string]string)}: Go's zero values
EmptyMessage ==
    [Version |-> <<>>, Sequence |-> 0, Method |-> <<>>, Code |-> 0,
     Headers |-> NoHeaders]

\* m[k] = v on a Go map
MapSet(h, k, v) ==
    [x \in (DOMAIN h) \cup {k} |-> IF x = k THEN v ELSE h[x]]

\* m[k] read from a Go map: the zero value "" for an absent key
MapGet(h, k) == IF k \in DOMAIN h THEN h[k] ELSE <<>>

\* the header loop of NewMessage: each line is cut once at "=", a later
\* occurrence of a key overwrites an earlier one
RECURSIVE ParseHeaders(_, _)
ParseHeaders(lines, h) ==
    IF Len(lines) = 0
    THEN h
    ELSE LET cut == Cut(lines[1], <<"=">>)
         IN ParseHeaders(Tail(lines), MapSet(h, cut.before, cut.after))

Panicked == [panic |-> TRUE, msg |-> EmptyMessage]

Returned(m) == [panic |-> FALSE, msg |-> m]

\* the method line and what follows it (NewMessage from "Extract method")
ParseMethod(lines, msg) ==
    IF Len(lines) = 0
    THEN Panicked
    ELSE LET cut == Cut(lines[1], <<"/">>)
             isSet == cut.found /\ cut.before = StrSET
             isRsp == cut.found /\ cut.before = StrRSP
             m1 == IF isSet THEN [msg EXCEPT !.Method = cut.after] ELSE msg
             rest == IF isSet \/ isRsp THEN Tail(lines) ELSE lines
         IN IF isRsp
            THEN LET cut2 == Cut(cut.after, <<"/">>)
                     code == Atoi(cut2.after)
                 IN IF ~cut2.found
                    THEN Returned([m1 EXCEPT
                            !.Headers = ParseHeaders(rest, NoHeaders)])
                    ELSE IF ~code.ok
                    THEN Returned([m1 EXCEPT !.Method = cut2.before])
                    ELSE Returned([m1 EXCEPT
                            !.Method = cut2.before,
                            !.Code = code.val,
                            !.Headers = ParseHeaders(rest, NoHeaders)])
            ELSE Returned([m1 EXCEPT
                    !.Headers = ParseHeaders(rest, NoHeaders)])

\* the sequence line and what follows it (NewMessage from "Extract sequence")
ParseSequence(lines, msg) ==
    IF Len(lines) = 0
    THEN Panicked
    ELSE LET cut == Cut(lines[1], <<"=">>)
         IN IF cut.found /\ cut.before = StrSeq
            THEN LET seq == Atoi(cut.after)
                 IN IF ~seq.ok
                    THEN Returned(msg)
                    ELSE ParseMethod(Tail(lines),
                                     [msg EXCEPT !.Sequence = seq.val])
            ELSE ParseMethod(lines, msg)

\* NewMessage(message): the decoded message, or a panic (an index out of
\* range on messageLines)
NewMessage(message) ==
    LET all == Split(ReplaceAll(message, CRLF, <<LF>>), <<LF>>)
        lines1 == Take(all, Len(all) - 1)
    IN IF Len(lines1) = 0
       THEN Panicked
       ELSE LET lines2 == IF lines1[Len(lines1)] = StrSubmit
                          THEN Take(lines1, Len(lines1) - 1)
                          ELSE lines1
            IN IF Len(lines2) = 0
               THEN Panicked
               ELSE ParseSequence(Tail(lines2),
                                  [EmptyMessage EXCEPT !.Version = lines2[1]])

\* the orders in which "range m.Headers" may visit the keys: Go leaves the
\* iteration order of a map unspecified
HeaderOrders(m) ==
    LET keys == DOMAIN m.Headers
        n == Cardinality(keys)
    IN {o \in [1..n -> keys] : \A i, j \in 1..n : i # j => o[i] # o[j]}

RECURSIVE HeaderLines(_, _)
HeaderLines(m, order) ==
    IF Len(order) = 0
    THEN <<>>
    ELSE LET k == order[1]
             line == IF m.Headers[k] = <<>>
                     THEN k
                     ELSE k \o <<"=">> \o m.Headers[k]
         IN line \o CRLF \o HeaderLines(m, Tail(order))

\* the request line written whatever the code
ToBytesInRequestLine(m, order) ==
    m.Version \o CRLF
    \o StrSeq \o <<"=">> \o Itoa(m.Sequence) \o CRLF
    \o StrSET \o <<"/">> \o m.Method \o CRLF
    \o HeaderLines(m, order)
    \o StrSubmit \o CRLF

\* m.ToBytes() when the headers are visited in the given order
ToBytesIn(m, order) ==
    m.Version \o CRLF
    \o StrSeq \o <<"=">> \o Itoa(m.Sequence) \o CRLF
    \o (IF m.Code > 0
        THEN StrRSP \o <<"/">> \o m.Method \o <<"/">> \o Itoa(m.Code)
        ELSE StrSET \o <<"/">> \o m.Method) \o CRLF
    \o HeaderLines(m, order)
    \o StrSubmit \o CRLF

\* every byte string m.ToBytes() may return
ToBytes(m) == {ToBytesIn(m, o) : o \in HeaderOrders(m)}

(***************************************************************************)
(* The state of the process.                                               *)
(***************************************************************************)
VARIABLES
    disableTLS,  \* the global flag set from PONSE_DISABLE_TLS at startup
    crashed,     \* an unrecovered panic has ended the process
    pc,          \* where the goroutine of the primary session stands
    rounds,      \* iterations of the session loop started so far
    conn,        \* the client leg: its socket and the TLS layers around it
    serverConn,  \* the destination leg
    buffer,      \* the bytes of the last read (buffer[:n])
    res,         \* the message decoded from buffer: <<>> or <<message>>
    lastRead,    \* the leg and the error of the last read
    spawned,     \* the startMediaConnection calls made for the message in res
    wire,        \* the last write of the session
    listeners,   \* the side-channel listeners and datagram sockets bound
    relays       \* the handleMediaConnection invocations, in start order

vars ==
    <<disableTLS, crashed, pc, rounds, conn, serverConn, buffer, res,
      lastRead, spawned, wire, listeners, relays>>

sessionVars ==
    <<pc, rounds, conn, serverConn, buffer, res, lastRead, spawned, wire>>

(***************************************************************************)
(* The input of the model: the byte strings the two peers of the primary   *)
(* session send, and the bytes the peers of a relay send.                  *)
(***************************************************************************)
Line(s) == s \o CRLF

Hdr(k, v) == k \o <<"=">> \o v

Version121 == <<"i", "R", "T", "S", "P", "/", "1", ".", "2", "1">>

\* side-channel descriptors <chunkType>/<deliveryMode>/<transport>/<port>
DescTcp1 == <<"d", "/", "u", "/", "t", "c", "p", "/", "1">>
DescTcp2 == <<"d", "/", "u", "/", "t", "c", "p", "/", "2">>
DescUst3 == <<"d", "/", "u", "/", "u", "s", "t", "/", "3">>

Rsp(method) == StrRSP \o <<"/">> \o method \o <<"/", "2", "0", "0">>

Packet(methodLine, headerLines) ==
    Line(Version121) \o Line(Hdr(StrSeq, <<"7">>)) \o Line(methodLine)
    \o headerLines \o Line(StrSubmit)

ServerMessages ==
    { Packet(Rsp(StrSETUP), Line(Hdr(StrV, DescTcp1)) \o Line(Hdr(StrA, DescTcp1))
                          \o Line(Hdr(StrC, DescTcp2))),
      Packet(Rsp(StrSETUP), Line(Hdr(StrV, DescTcp1)) \o Line(Hdr(StrA, DescUst3))
                          \o Line(Hdr(StrC, DescTcp1))),
      Packet(Rsp(StrSETUP), Line(Hdr(StrV, DescTcp1)) \o Line(Hdr(StrC, DescTcp2))),
      Packet(Rsp(StrKNOCK), Line(Hdr(StrP, DescTcp2 \o <<";">>))),
      Packet(Rsp(StrKNOCK), Line(Hdr(StrP, DescTcp2 \o <<";", ";">>))),
      Packet(Rsp(StrKNOCK), Line(Hdr(StrP, DescTcp2))),
      Packet(Rsp(StrSTART), Line(Hdr(StrSc, StrTls)) \o Line(Hdr(<<"t">>, <<"1">>))),
      Packet(StrSET \o <<"/">> \o StrSTART, Line(Hdr(<<"t">>, <<"1">>))),
      Packet(Rsp(StrPLAY), Line(Hdr(StrSc, StrTls))) }

ClientMessages ==
    { Packet(StrSET \o <<"/">> \o StrSTART, Line(Hdr(StrSc, StrTls))),
      <<"x">> }

\* NewMessage on each input of the primary session, evaluated once
Decoded == [b \in ServerMessages \cup ClientMessages |-> NewMessage(b)]

ClientChunks == {<<"c1">>, <<"c1", "c2">>}

ServerChunks == {<<"s1">>, <<"s1", "s2">>}

(***************************************************************************)
(* Connections. A leg of the primary session is a socket with the TLS      *)
(* wrappers put around it, innermost first.                                *)
(***************************************************************************)
NoLeg == [state |-> "none", layers |-> <<>>]

\* the TLS role of a leg: that of its outermost wrapper
Role(leg) ==
    IF leg.layers = <<>> THEN "Plain" ELSE leg.layers[Len(leg.layers)]

\* (n, err) of a Read on a net.Conn: data, the deadline, or another error
ReadResults(messages) ==
    {[data |-> m, err |-> "none"] : m \in messages}
    \cup {[data |-> <<>>, err |-> "deadline"], [data |-> <<>>, err |-> "other"]}

\* the deadline test left out: err != nil
IsTerminalAnyError(err) == err # "none"

\* err != nil && !errors.Is(err, os.ErrDeadlineExceeded)
IsTerminal(err) == err # "none" /\ err # "deadline"

NoWire ==
    [to |-> "none", msg |-> EmptyMessage, bytes |-> <<>>, layers |-> <<>>,
     err |-> FALSE]

NoRead == [leg |-> "none", err |-> "none"]

(***************************************************************************)
(* The side-channel spawner and the relays it starts.                      *)
(***************************************************************************)
\* the state of handleMediaConnection(conn, network, port, kind) when started
NewRelay(network, port, kind) ==
    [network |-> network, port |-> port, kind |-> kind,
     pc |-> "dial",            \* dial, copy (wg.Wait), returned
     conn |-> "open",          \* the accepted connection or bound socket
     serverConn |-> "none",    \* the dialed destination connection
     c2s |-> "idle", c2sBuf |-> <<>>,   \* the goroutine reading conn
     s2c |-> "idle", s2cBuf |-> <<>>,   \* the goroutine reading serverConn
     connIn |-> <<>>,          \* bytes read from conn
     srvOut |-> <<>>,          \* bytes written to serverConn
     srvIn |-> <<>>,           \* bytes read from serverConn
     connOut |-> <<>>,         \* bytes written to conn
     connSent |-> <<>>]        \* bytes sent from the bound socket with WriteTo

\* the networks net.Listen serves that the input uses; net.Listen refuses
\* "udp" and every unknown network
StreamNetworks == {StrTcp}

PortNumber(port) == Atoi(port).val

\* a port the resolver accepts
PortOK(port) == Atoi(port).ok /\ PortNumber(port) >= 0 /\ PortNumber(port) <= 65535

\* the port is taken by a listener or socket of this process
PortTaken(network, port) ==
    \E l \in listeners :
        l.network = network /\ PortNumber(l.port) = PortNumber(port)

SpawnRecord(header, kind, result) ==
    [kind |-> kind, header |-> header, result |-> result]

\* log.Fatalln in place of log.Println: the failed spawn ends the process
SpawnAbandonedFatal(header, kind, result) ==
    /\ spawned' = Append(spawned, SpawnRecord(header, kind, result))
    /\ crashed' = TRUE
    /\ UNCHANGED <<listeners, relays>>

\* a startMediaConnection call that logs an error and returns
SpawnAbandoned(header, kind, result) ==
    /\ spawned' = Append(spawned, SpawnRecord(header, kind, result))
    /\ crashed' = crashed
    /\ UNCHANGED <<listeners, relays>>

\* startMediaConnection(header, kind): the call's effect on the listeners, the
\* relays and the process. A descriptor with fewer than two segments indexes
\* headerStrings out of range and panics.
StartMediaConnection(header, kind) ==
    LET headerStrings == Split(header, <<"/">>)
        n == Len(headerStrings)
    IN IF n < 2
       THEN /\ crashed' = TRUE
            /\ spawned' = Append(spawned, SpawnRecord(header, kind, "panic"))
            /\ UNCHANGED <<listeners, relays>>
       ELSE LET port == headerStrings[n]
                network == headerStrings[n - 1]
            IN IF network = StrUst
               THEN IF ~Atoi(port).ok
                    THEN SpawnAbandoned(header, kind, "badport")
                    ELSE \/ /\ PortOK(port)
                            /\ ~PortTaken(StrUdp, port)
                            /\ Len(relays) < MaxRelays
                            /\ listeners' = listeners \cup
                                 {[network |-> StrUdp, port |-> port, kind |-> kind]}
                            /\ relays' = Append(relays, NewRelay(StrUdp, port, kind))
                            /\ spawned' = Append(spawned,
                                 SpawnRecord(header, kind, "bound"))
                            /\ crashed' = crashed
                         \/ SpawnAbandoned(header, kind, "failed")
               ELSE \/ /\ network \in StreamNetworks
                       /\ PortOK(port)
                       /\ ~PortTaken(network, port)
                       /\ listeners' = listeners \cup
                             {[network |-> network, port |-> port, kind |-> kind]}
                       /\ spawned' = Append(spawned,
                             SpawnRecord(header, kind, "listening"))
                       /\ crashed' = crashed
                       /\ UNCHANGED relays
                    \/ SpawnAbandoned(header, kind, "failed")

(***************************************************************************)
(* The primary session: handleIRTSPConnection.                             *)
(***************************************************************************)
\* the loop left without the deferred serverConn.Close()
SessionBreakServerLeft ==
    /\ pc' = "closed"
    /\ conn' = [conn EXCEPT !.state = "closed"]
    /\ serverConn' = serverConn

\* leaving the loop: the deferred serverConn.Close() and conn.Close() run
SessionBreak ==
    /\ pc' = "closed"
    /\ conn' = [conn EXCEPT !.state = "closed"]
    /\ serverConn' = [serverConn EXCEPT !.state = "closed"]

\* strings.TrimSuffix(s, ";"): one trailing ";" is removed
TrimSuffixSemicolon(s) ==
    IF Len(s) > 0 /\ s[Len(s)] = ";" THEN Take(s, Len(s) - 1) ELSE s

\* strings.TrimSuffix in place of strings.TrimRight
KnockDescriptorTrimSuffix(knockHeader) == TrimSuffixSemicolon(knockHeader)

\* the descriptor the KNOCK branch hands to the spawner
KnockDescriptor(knockHeader) == TrimRight(knockHeader, ";")

\* the startMediaConnection calls the SETUP and KNOCK branches make for a
\* message of the destination, in order, when none of them panics
SideEffectCalls(m) ==
    LET videoHeader == MapGet(m.Headers, StrV)
        audioHeader == MapGet(m.Headers, StrA)
        controlHeader == MapGet(m.Headers, StrC)
    IN (IF m.Method = StrSETUP
        THEN <<[header |-> videoHeader, kind |-> "VIDEO"]>>
             \o (IF audioHeader # videoHeader
                 THEN <<[header |-> audioHeader, kind |-> "AUDIO"]>>
                 ELSE <<>>)
             \o (IF controlHeader # videoHeader /\ controlHeader # audioHeader
                 THEN <<[header |-> controlHeader, kind |-> "CONTROL"]>>
                 ELSE <<>>)
        ELSE <<>>)
       \o (IF m.Method = StrKNOCK
           THEN <<[header |-> KnockDescriptor(MapGet(m.Headers, StrP)),
                   kind |-> "KNOCK"]>>
           ELSE <<>>)

\* the message forwarded before its side effects are applied
AfterServerDecodeForwardFirst(m) == "writeClient"

\* where the session goes once a message of the destination is decoded: the
\* SETUP and KNOCK branches come before conn.Write
AfterServerDecode(m) ==
    IF SideEffectCalls(m) # <<>> THEN "spawn" ELSE "writeClient"

\* the rewrite without the test of the method
RewriteAnyMethod(m) ==
    IF /\ disableTLS
       /\ StrSc \in DOMAIN m.Headers
       /\ m.Headers[StrSc] = StrTls
    THEN [m EXCEPT !.Headers = MapSet(m.Headers, StrSc, <<>>)]
    ELSE m

\* the START branch taken before the message is written to the client
RewriteStart(m) ==
    IF /\ m.Method = StrSTART
       /\ disableTLS
       /\ StrSc \in DOMAIN m.Headers
       /\ m.Headers[StrSc] = StrTls
    THEN [m EXCEPT !.Headers = MapSet(m.Headers, StrSc, <<>>)]
    ELSE m

\* tls.Server(conn, config) without the test of disableTLS
UpgradedConnAlways ==
    [conn EXCEPT !.layers = Append(conn.layers, "SecureServer")]

\* the TLS wrappers put around the legs after a START message was written
UpgradedConn ==
    IF ~disableTLS
    THEN [conn EXCEPT !.layers = Append(conn.layers, "SecureServer")]
    ELSE conn

UpgradedServerConn ==
    [serverConn EXCEPT !.layers = Append(serverConn.layers, "SecureClient")]

\* main: ln.Accept() and go handleIRTSPConnection(conn)
AcceptSession ==
    /\ ~crashed
    /\ pc = "accept"
    /\ conn' = [state |-> "open", layers |-> <<>>]
    /\ pc' = "dial"
    /\ UNCHANGED <<disableTLS, crashed, rounds, serverConn, buffer, res,
                   lastRead, spawned, wire, listeners, relays>>

\* net.Dial of the destination; on failure conn is closed by its defer
DialServer ==
    /\ ~crashed
    /\ pc = "dial"
    /\ \/ /\ serverConn' = [state |-> "open", layers |-> <<>>]
          /\ pc' = "readClient"
          /\ conn' = conn
       \/ /\ conn' = [conn EXCEPT !.state = "closed"]
          /\ pc' = "closed"
          /\ serverConn' = serverConn
    /\ UNCHANGED <<disableTLS, crashed, rounds, buffer, res, lastRead,
                   spawned, wire, listeners, relays>>

\* conn.Read under the one-second deadline, and NewMessage on a non-empty read
ReadClient ==
    /\ ~crashed
    /\ pc = "readClient"
    /\ rounds < MaxRounds
    /\ rounds' = rounds + 1
    /\ \E r \in ReadResults(ClientMessages) :
        /\ lastRead' = [leg |-> "client", err |-> r.err]
        /\ buffer' = r.data
        /\ IF IsTerminal(r.err)
           THEN /\ SessionBreak
                /\ res' = <<>>
                /\ crashed' = crashed
           ELSE IF Len(r.data) > 0
           THEN LET req == Decoded[r.data]
                IN IF req.panic
                   THEN /\ crashed' = TRUE
                        /\ res' = <<>>
                        /\ UNCHANGED <<pc, conn, serverConn>>
                   ELSE /\ res' = <<req.msg>>
                        /\ pc' = "writeServer"
                        /\ UNCHANGED <<crashed, conn, serverConn>>
           ELSE /\ res' = <<>>
                /\ pc' = "readServer"
                /\ UNCHANGED <<crashed, conn, serverConn>>
        /\ IF Len(r.data) > 0 /\ ~IsTerminal(r.err)
           THEN spawned' = <<>> /\ wire' = NoWire
           ELSE UNCHANGED <<spawned, wire>>
    /\ UNCHANGED <<disableTLS, listeners, relays>>

\* serverConn.Write(req.ToBytes())
WriteServer ==
    /\ ~crashed
    /\ pc = "writeServer"
    /\ \E bytes \in ToBytes(res[1]), failed \in BOOLEAN :
        /\ wire' = [to |-> "server", msg |-> res[1], bytes |-> bytes,
                    layers |-> serverConn.layers, err |-> failed]
        /\ IF failed
           THEN SessionBreak
           ELSE /\ pc' = "readServer"
                /\ UNCHANGED <<conn, serverConn>>
    /\ UNCHANGED <<disableTLS, crashed, rounds, buffer, res, lastRead,
                   spawned, listeners, relays>>

\* serverConn.Read under the one-second deadline, and NewMessage
ReadServer ==
    /\ ~crashed
    /\ pc = "readServer"
    /\ \E r \in ReadResults(ServerMessages) :
        /\ lastRead' = [leg |-> "server", err |-> r.err]
        /\ buffer' = r.data
        /\ IF IsTerminal(r.err)
           THEN /\ SessionBreak
                /\ res' = <<>>
                /\ crashed' = crashed
           ELSE IF Len(r.data) > 0
           THEN LET m == Decoded[r.data]
                IN IF m.panic
                   THEN /\ crashed' = TRUE
                        /\ res' = <<>>
                        /\ UNCHANGED <<pc, conn, serverConn>>
                   ELSE /\ res' = <<m.msg>>
                        /\ pc' = AfterServerDecode(m.msg)
                        /\ UNCHANGED <<crashed, conn, serverConn>>
           ELSE /\ res' = <<>>
                /\ pc' = "readClient"
                /\ UNCHANGED <<crashed, conn, serverConn>>
        /\ IF Len(r.data) > 0 /\ ~IsTerminal(r.err)
           THEN spawned' = <<>> /\ wire' = NoWire
           ELSE UNCHANGED <<spawned, wire>>
    /\ UNCHANGED <<disableTLS, rounds, listeners, relays>>

\* the next startMediaConnection call of the SETUP or KNOCK branch
Spawn ==
    /\ ~crashed
    /\ pc = "spawn"
    /\ LET calls == SideEffectCalls(res[1])
           call == calls[Len(spawned) + 1]
       IN /\ StartMediaConnection(call.header, call.kind)
          /\ pc' = IF Len(spawned) + 1 = Len(calls) /\ ~crashed'
                   THEN "writeClient"
                   ELSE "spawn"
    /\ UNCHANGED <<disableTLS, rounds, conn, serverConn, buffer, res,
                   lastRead, wire>>

\* the legs wrapped before the START message is written
WriteClientAfterUpgrade ==
    /\ ~crashed
    /\ pc = "writeClient"
    /\ LET out == RewriteStart(res[1])
           isStart == out.Method = StrSTART
           newConn == IF isStart THEN UpgradedConn ELSE conn
           newServerConn == IF isStart THEN UpgradedServerConn ELSE serverConn
       IN \E bytes \in ToBytes(out), failed \in BOOLEAN :
            /\ wire' = [to |-> "client", msg |-> out, bytes |-> bytes,
                        layers |-> newConn.layers, err |-> failed]
            /\ IF failed
               THEN /\ pc' = "closed"
                    /\ conn' = [newConn EXCEPT !.state = "closed"]
                    /\ serverConn' = [newServerConn EXCEPT !.state = "closed"]
               ELSE /\ pc' = "readClient"
                    /\ conn' = newConn
                    /\ serverConn' = newServerConn
    /\ UNCHANGED <<disableTLS, crashed, rounds, buffer, res, lastRead,
                   spawned, listeners, relays>>

\* conn.Write(res.ToBytes()) after the START rewrite
WriteClient ==
    /\ ~crashed
    /\ pc = "writeClient"
    /\ LET out == RewriteStart(res[1])
       IN \E bytes \in ToBytes(out), failed \in BOOLEAN :
            /\ wire' = [to |-> "client", msg |-> out, bytes |-> bytes,
                        layers |-> conn.layers, err |-> failed]
            /\ IF failed
               THEN SessionBreak
               ELSE /\ pc' = IF out.Method = StrSTART
                             THEN "upgrade"
                             ELSE "readClient"
                    /\ UNCHANGED <<conn, serverConn>>
    /\ UNCHANGED <<disableTLS, crashed, rounds, buffer, res, lastRead,
                   spawned, listeners, relays>>

\* tls.Server(conn, config) unless TLS is disabled, tls.Client(serverConn, config)
Upgrade ==
    /\ ~crashed
    /\ pc = "upgrade"
    /\ conn' = UpgradedConn
    /\ serverConn' = UpgradedServerConn
    /\ pc' = "readClient"
    /\ UNCHANGED <<disableTLS, crashed, rounds, buffer, res, lastRead,
                   spawned, wire, listeners, relays>>

(***************************************************************************)
(* The accept loop of a stream side channel and the relay:                 *)
(* handleMediaConnection. No deadline is ever set on a relay's             *)
(* connections, so a relay's Read returns data or a terminal error.        *)
(***************************************************************************)
\* ln.Accept() and go handleMediaConnection(conn, network, port, kind)
AcceptRelay(maxRelays) ==
    /\ ~crashed
    /\ Len(relays) < maxRelays
    /\ \E l \in listeners :
        /\ l.network \in StreamNetworks
        /\ relays' = Append(relays, NewRelay(l.network, l.port, l.kind))
    /\ UNCHANGED <<disableTLS, crashed, listeners>>
    /\ UNCHANGED sessionVars

\* net.Dial(network, serverAddress + ":" + port); on success wg.Add(2) and the
\* two goroutines start, on failure the function returns
RelayDial(r) ==
    /\ ~crashed
    /\ r \in 1..Len(relays)
    /\ relays[r].pc = "dial"
    /\ \/ relays' = [relays EXCEPT ![r].pc = "copy",
                                   ![r].serverConn = "open",
                                   ![r].c2s = "read",
                                   ![r].s2c = "read"]
       \/ relays' = [relays EXCEPT ![r].pc = "returned"]
    /\ UNCHANGED <<disableTLS, crashed, listeners>>
    /\ UNCHANGED sessionVars

\* the first goroutine writing to the connection it reads from
C2SSinkConn(network) == "connOut"

\* where the goroutine reading conn writes: the bound socket's WriteTo in
\* datagram mode, serverConn.Write otherwise
C2SSink(network) == IF network = StrUdp THEN "connSent" ELSE "srvOut"

\* where the goroutine reading serverConn writes: conn.Write in stream mode;
\* in datagram mode WriteTo on the connected serverConn with the nil
\* RemoteAddr of the bound socket, which never sends
S2CSink(network) == IF network = StrUdp THEN "none" ELSE "connOut"

\* conn.Read in the first goroutine
C2SRead(r, maxData) ==
    /\ ~crashed
    /\ r \in 1..Len(relays)
    /\ relays[r].c2s = "read"
    /\ \/ \E chunk \in ClientChunks :
            /\ Len(relays[r].connIn) + Len(chunk) <= maxData
            /\ relays' = [relays EXCEPT ![r].c2s = "write",
                                        ![r].c2sBuf = chunk,
                                        ![r].connIn = @ \o chunk]
       \/ relays' = [relays EXCEPT ![r].c2s = "done", ![r].c2sBuf = <<>>]
    /\ UNCHANGED <<disableTLS, crashed, listeners>>
    /\ UNCHANGED sessionVars

\* every relay writing to the destination connection of the first relay
C2SWriteShared(r) ==
    /\ ~crashed
    /\ r \in 1..Len(relays)
    /\ relays[r].c2s = "write"
    /\ LET sink == C2SSink(relays[r].network)
           buf == relays[r].c2sBuf
       IN \/ relays' = [relays EXCEPT ![r].c2s = "read",
                                      ![r].c2sBuf = <<>>,
                                      ![1][sink] = @ \o buf]
          \/ \E k \in 0..(Len(buf) - 1) :
                relays' = [relays EXCEPT ![r].c2s = "done",
                                         ![r].c2sBuf = <<>>,
                                         ![1][sink] = @ \o Take(buf, k)]
    /\ UNCHANGED <<disableTLS, crashed, listeners>>
    /\ UNCHANGED sessionVars

\* the write of the first goroutine: all of the buffer, or an error after a
\* part of it
C2SWrite(r) ==
    /\ ~crashed
    /\ r \in 1..Len(relays)
    /\ relays[r].c2s = "write"
    /\ LET sink == C2SSink(relays[r].network)
           buf == relays[r].c2sBuf
       IN \/ relays' = [relays EXCEPT ![r].c2s = "read",
                                      ![r].c2sBuf = <<>>,
                                      ![r][sink] = @ \o buf]
          \/ \E k \in 0..(Len(buf) - 1) :
                relays' = [relays EXCEPT ![r].c2s = "done",
                                         ![r].c2sBuf = <<>>,
                                         ![r][sink] = @ \o Take(buf, k)]
    /\ UNCHANGED <<disableTLS, crashed, listeners>>
    /\ UNCHANGED sessionVars

\* serverConn.Read in the second goroutine
S2CRead(r, maxData) ==
    /\ ~crashed
    /\ r \in 1..Len(relays)
    /\ relays[r].s2c = "read"
    /\ \/ \E chunk \in ServerChunks :
            /\ Len(relays[r].srvIn) + Len(chunk) <= maxData
            /\ relays' = [relays EXCEPT ![r].s2c = "write",
                                        ![r].s2cBuf = chunk,
                                        ![r].srvIn = @ \o chunk]
       \/ relays' = [relays EXCEPT ![r].s2c = "done", ![r].s2cBuf = <<>>]
    /\ UNCHANGED <<disableTLS, crashed, listeners>>
    /\ UNCHANGED sessionVars

\* the write of the second goroutine
S2CWrite(r) ==
    /\ ~crashed
    /\ r \in 1..Len(relays)
    /\ relays[r].s2c = "write"
    /\ LET sink == S2CSink(relays[r].network)
           buf == relays[r].s2cBuf
       IN IF sink = "none"
          THEN relays' = [relays EXCEPT ![r].s2c = "done", ![r].s2cBuf = <<>>]
          ELSE \/ relays' = [relays EXCEPT ![r].s2c = "read",
                                           ![r].s2cBuf = <<>>,
                                           ![r][sink] = @ \o buf]
               \/ \E k \in 0..(Len(buf) - 1) :
                     relays' = [relays EXCEPT ![r].s2c = "done",
                                              ![r].s2cBuf = <<>>,
                                              ![r][sink] = @ \o Take(buf, k)]
    /\ UNCHANGED <<disableTLS, crashed, listeners>>
    /\ UNCHANGED sessionVars

\* what handleMediaConnection closes when wg.Wait() has returned: the
\* deferred serverConn.Close(); conn is closed nowhere
RelayReleased(rel) == [rel EXCEPT !.pc = "returned", !.serverConn = "closed"]

\* wg.Wait() returns once both goroutines have called wg.Done()
RelayReturn(r) ==
    /\ ~crashed
    /\ r \in 1..Len(relays)
    /\ relays[r].pc = "copy"
    /\ relays[r].c2s = "done"
    /\ relays[r].s2c = "done"
    /\ relays' = [relays EXCEPT ![r] = RelayReleased(relays[r])]
    /\ UNCHANGED <<disableTLS, crashed, listeners>>
    /\ UNCHANGED sessionVars

(***************************************************************************)
(* The system: one primary session, its side channels and their relays.    *)
(***************************************************************************)
Init ==
    /\ disableTLS \in BOOLEAN
    /\ crashed = FALSE
    /\ pc = "accept"
    /\ rounds = 0
    /\ conn = NoLeg
    /\ serverConn = NoLeg
    /\ buffer = <<>>
    /\ res = <<>>
    /\ lastRead = NoRead
    /\ spawned = <<>>
    /\ wire = NoWire
    /\ listeners = {}
    /\ relays = <<>>

\* the primary session, the spawner, the accept loops and the dial of each
\* relay; the copy loops of the relays, which touch no variable of the
\* session, are explored by RelaySpec
Next ==
    \/ AcceptSession
    \/ DialServer
    \/ ReadClient
    \/ WriteServer
    \/ ReadServer
    \/ Spawn
    \/ WriteClient
    \/ Upgrade
    \/ AcceptRelay(MaxRelays)
    \/ \E r \in 1..MaxRelays : RelayDial(r)

Spec == Init /\ [][Next]_vars

(***************************************************************************)
(* The relays alone. The primary session has forwarded nothing yet: it     *)
(* read the SETUP message  v=tcp/1, a=ust/3, c=tcp/1  in its first round,  *)
(* spawned the VIDEO listener, tried the AUDIO socket, and ended on the    *)
(* failed write to its client. Its listeners and relays live on.           *)
(***************************************************************************)
SetupTcpUst ==
    Packet(Rsp(StrSETUP), Line(Hdr(StrV, DescTcp1)) \o Line(Hdr(StrA, DescUst3))
                          \o Line(Hdr(StrC, DescTcp1)))

VideoListener == [network |-> StrTcp, port |-> <<"1">>, kind |-> "VIDEO"]

AudioSocket == [network |-> StrUdp, port |-> <<"3">>, kind |-> "AUDIO"]

RelayInit ==
    LET m == NewMessage(SetupTcpUst).msg
    IN /\ disableTLS = FALSE
       /\ crashed = FALSE
       /\ pc = "closed"
       /\ rounds = 1
       /\ conn = [state |-> "closed", layers |-> <<>>]
       /\ serverConn = [state |-> "closed", layers |-> <<>>]
       /\ buffer = SetupTcpUst
       /\ res = <<m>>
       /\ lastRead = [leg |-> "server", err |-> "none"]
       /\ wire = [to |-> "client", msg |-> m,
                  bytes |-> ToBytesIn(m, <<StrV, StrA, StrC>>),
                  layers |-> <<>>, err |-> TRUE]
       /\ \/ /\ spawned = <<SpawnRecord(DescTcp1, "VIDEO", "listening"),
                            SpawnRecord(DescUst3, "AUDIO", "bound")>>
             /\ listeners = {VideoListener, AudioSocket}
             /\ relays = <<NewRelay(StrUdp, <<"3">>, "AUDIO")>>
          \/ /\ spawned = <<SpawnRecord(DescTcp1, "VIDEO", "listening"),
                            SpawnRecord(DescUst3, "AUDIO", "failed")>>
             /\ listeners = {VideoListener}
             /\ relays = <<>>

NextRelay ==
    \/ AcceptRelay(MaxStreams)
    \/ \E r \in 1..MaxStreams : RelayDial(r)
    \/ \E r \in 1..MaxStreams : C2SRead(r, MaxData)
    \/ \E r \in 1..MaxStreams : C2SWrite(r)
    \/ \E r \in 1..MaxStreams : S2CRead(r, MaxData)
    \/ \E r \in 1..MaxStreams : S2CWrite(r)
    \/ \E r \in 1..MaxStreams : RelayReturn(r)

RelaySpec == RelayInit /\ [][NextRelay]_vars

\* A goroutine that can run does run: a dial returns, a write returns, and
\* wg.Wait() returns once both goroutines are done. A Read returns only when
\* the peer sends or the connection fails, which nothing guarantees.
RelayFairness ==
    \A r \in 1..MaxStreams :
        /\ WF_vars(RelayDial(r))
        /\ WF_vars(C2SWrite(r))
        /\ WF_vars(S2CWrite(r))
        /\ WF_vars(RelayReturn(r))

FairRelaySpec == RelayInit /\ [][NextRelay]_vars /\ RelayFairness

\* the states in which RelaySpec starts are states of the system
RelayInitReachable == ~RelayInit

\* Several connections accepted on the side channels, their relays running
\* side by side.
NextConcurrentRelay ==
    \/ AcceptRelay(MaxConcurrent)
    \/ \E r \in 1..MaxConcurrent : RelayDial(r)
    \/ \E r \in 1..MaxConcurrent : C2SRead(r, MaxData)
    \/ \E r \in 1..MaxConcurrent : C2SWrite(r)
    \/ \E r \in 1..MaxConcurrent : S2CRead(r, MaxData)
    \/ \E r \in 1..MaxConcurrent : S2CWrite(r)
    \/ \E r \in 1..MaxConcurrent : RelayReturn(r)

ConcurrentRelaySpec == RelayInit /\ [][NextConcurrentRelay]_vars

(***************************************************************************)
(* The codec alone: a message is encoded and the bytes are decoded, or raw  *)
(* bytes as a peer may send them are decoded. The message to encode is in   *)
(* res, the bytes in buffer, the encoded message in wire, and a panic of    *)
(* NewMessage in crashed.                                                   *)
(***************************************************************************)
CodecVersions == {Version121, <<>>}

CodecSequences == {0, 7, -3}

CodecMethods == {<<>>, StrSTART, StrSubmit}

CodecCodes == {0, 200}

CodecKeys == {StrSc, <<>>, StrSubmit, StrSeq}

CodecValues == {<<>>, StrTls, <<"a", "=", "b">>}

\* the header maps of at most MaxHeaders keys
CodecHeaders ==
    UNION {[keys -> CodecValues] :
             keys \in {k \in SUBSET CodecKeys : Cardinality(k) <= MaxHeaders}}

\* Message values whose lines the wire format can carry: no line break in
\* any field, no "/" in the method, no "=" in a header key
CodecMessages ==
    [Version : CodecVersions, Sequence : CodecSequences,
     Method : CodecMethods, Code : CodecCodes, Headers : CodecHeaders]

\* bytes a peer may send that are no complete message
RawInputs ==
    { <<>>,
      <<"x">>,
      Line(<<"x">>),
      Line(Version121),
      Line(StrSubmit),
      Line(Version121) \o Line(Hdr(StrSeq, <<"7">>)),
      Line(Version121) \o Line(Hdr(StrSeq, <<"x">>)),
      Line(Version121) \o Line(Hdr(StrSeq, <<"7">>)) \o Line(StrSubmit),
      Line(Version121) \o Line(Hdr(StrSeq, <<"7">>))
          \o Line(StrSET \o <<"/">> \o StrSTART),
      Line(Version121) \o Line(Hdr(StrSeq, <<"7">>))
          \o Line(StrRSP \o <<"/">> \o StrSTART \o <<"/", "x">>)
          \o Line(StrSubmit),
      Line(Version121) \o Line(StrSET \o <<"/">> \o StrSTART)
          \o Line(StrSc) \o Line(StrSubmit) }

CodecInit ==
    /\ disableTLS = FALSE
    /\ crashed = FALSE
    /\ rounds = 0
    /\ conn = NoLeg
    /\ serverConn = NoLeg
    /\ lastRead = NoRead
    /\ spawned = <<>>
    /\ wire = NoWire
    /\ listeners = {}
    /\ relays = <<>>
    /\ \/ /\ pc = "encode"
          /\ buffer = <<>>
          /\ \E m \in CodecMessages : res = <<m>>
       \/ /\ pc = "decode"
          /\ buffer \in RawInputs
          /\ res = <<>>

\* m.ToBytes()
Encode ==
    /\ pc = "encode"
    /\ \E bytes \in ToBytes(res[1]) :
        /\ wire' = [to |-> "codec", msg |-> res[1], bytes |-> bytes,
                    layers |-> <<>>, err |-> FALSE]
        /\ buffer' = bytes
    /\ res' = <<>>
    /\ pc' = "decode"
    /\ UNCHANGED <<disableTLS, crashed, rounds, conn, serverConn, lastRead,
                   spawned, listeners, relays>>

\* NewMessage(buffer)
Decode ==
    /\ pc = "decode"
    /\ LET d == NewMessage(buffer)
       IN /\ crashed' = d.panic
          /\ res' = IF d.panic THEN <<>> ELSE <<d.msg>>
    /\ pc' = "decoded"
    /\ UNCHANGED <<disableTLS, rounds, conn, serverConn, buffer, lastRead,
                   spawned, wire, listeners, relays>>

NextCodec == Encode \/ Decode

CodecSpec == CodecInit /\ [][NextCodec]_vars

(***************************************************************************)
(* Properties of the primary session.                                      *)
(***************************************************************************)
IsPrefix(p, q) == Len(p) <= Len(q) /\ Take(q, Len(p)) = p

\* the lines of a byte string, as NewMessage splits them
LinesOf(bytes) == Split(ReplaceAll(bytes, CRLF, <<LF>>), <<LF>>)

HasLine(bytes, line) ==
    LET lines == LinesOf(bytes)
    IN \E i \in 1..Len(lines) : lines[i] = line

\* the message of the destination that the session is working on or has
\* just forwarded
ServerMessageInHand == lastRead.leg = "server" /\ res # <<>>

\* C1: a read error other than the deadline on either leg, and a write error
\* on either leg, ends the session in the same step: the loop is left, both
\* the client-facing and the destination-facing connection are closed, and
\* from then on the session reads, writes, spawns and upgrades nothing.
C1_TerminalErrorClosesBoth ==
    /\ []((lastRead.err = "other" \/ wire.err)
            => /\ pc = "closed"
               /\ conn.state = "closed"
               /\ serverConn.state = "closed")
    /\ [][pc = "closed" => UNCHANGED <<sessionVars, listeners>>]_vars

\* a write to the client that failed after the legs were upgraded
C1_Witness ==
    /\ wire.err
    /\ wire.to = "client"
    /\ Role(serverConn) = "SecureClient"
    /\ pc = "closed"
    /\ conn.state = "closed"
    /\ serverConn.state = "closed"

\* C4: once a START message read from the destination has been written to
\* the client, the destination leg becomes SecureClient, and the client leg
\* becomes SecureServer exactly when TLS is not disabled (else it stays
\* Plain); no other step of the session changes the role of a leg.
C4_StartUpgradesRoles ==
    [][/\ (conn.layers' # conn.layers \/ serverConn.layers' # serverConn.layers)
            => /\ ServerMessageInHand
               /\ res[1].Method = StrSTART
               /\ wire.to = "client"
               /\ ~wire.err
               /\ wire.msg.Method = StrSTART
       /\ (/\ pc = "writeClient"
           /\ pc' # "writeClient"
           /\ ~wire'.err
           /\ res[1].Method = StrSTART) => pc' = "upgrade"
       /\ (pc = "upgrade" /\ pc' # "upgrade")
            => /\ Role(serverConn') = "SecureClient"
               /\ Role(conn') = IF disableTLS THEN "Plain" ELSE "SecureServer"
      ]_vars

\* TLS disabled: after a forwarded START only the destination leg is secure
C4_Witness ==
    /\ disableTLS
    /\ pc = "readClient"
    /\ ServerMessageInHand
    /\ res[1].Method = StrSTART
    /\ Role(serverConn) = "SecureClient"
    /\ Role(conn) = "Plain"

\* C5: the message written to the client is the decoded message of the
\* destination, except that a START message with sc = "tls" under disabled
\* TLS carries sc with the empty value, encoded as the bare key; the client
\* decodes exactly that message. Nothing else is rewritten.
C5_StartSchemeRewrite ==
    (wire.to = "client" /\ ServerMessageInHand) =>
        LET m == res[1]
            rewritten == /\ m.Method = StrSTART
                         /\ disableTLS
                         /\ StrSc \in DOMAIN m.Headers
                         /\ m.Headers[StrSc] = StrTls
        IN /\ wire.msg.Version = m.Version
           /\ wire.msg.Sequence = m.Sequence
           /\ wire.msg.Method = m.Method
           /\ wire.msg.Code = m.Code
           /\ DOMAIN wire.msg.Headers = DOMAIN m.Headers
           /\ \A k \in DOMAIN m.Headers :
                wire.msg.Headers[k] =
                    IF rewritten /\ k = StrSc THEN <<>> ELSE m.Headers[k]
           /\ rewritten => /\ HasLine(wire.bytes, StrSc)
                           /\ ~HasLine(wire.bytes, Hdr(StrSc, StrTls))
           /\ NewMessage(wire.bytes) = Returned(wire.msg)

\* TLS disabled: a START message was written with the bare key sc
C5_Witness ==
    /\ disableTLS
    /\ wire.to = "client"
    /\ ~wire.err
    /\ ServerMessageInHand
    /\ res[1].Method = StrSTART
    /\ MapGet(res[1].Headers, StrSc) = StrTls
    /\ HasLine(wire.bytes, StrSc)

\* the values of the headers v, a, c that a message carries
DescriptorValues(m) ==
    {m.Headers[k] : k \in {StrV, StrA, StrC} \cap DOMAIN m.Headers}

\* C6: when the session is done with the side effects of a SETUP message of
\* the destination (it goes on to forward it, or the process has died in a
\* spawn), it has made one spawn attempt per distinct value among v, a, c:
\* as many attempts as distinct values, each value attempted, none twice.
C6_OneSpawnPerDistinctValue ==
    (ServerMessageInHand /\ res[1].Method = StrSETUP /\ (pc # "spawn" \/ crashed))
        => /\ Len(spawned) = Cardinality(DescriptorValues(res[1]))
           /\ {spawned[i].header : i \in 1..Len(spawned)} = DescriptorValues(res[1])
           /\ \A i, j \in 1..Len(spawned) :
                i # j => spawned[i].header # spawned[j].header

\* C7 as stated: the spawner gets the value of p with exactly one trailing
\* ";" removed if there is one.
C7_KnockTrimsOneSemicolon ==
    (ServerMessageInHand /\ res[1].Method = StrKNOCK /\ Len(spawned) >= 1)
        => LET p == MapGet(res[1].Headers, StrP)
           IN spawned[1].header =
                IF Len(p) > 0 /\ p[Len(p)] = ";" THEN Take(p, Len(p) - 1) ELSE p

\* C7 amended: the spawner gets the value of p with every trailing ";"
\* removed: the descriptor ends in no ";", and p is the descriptor followed
\* by nothing but ";" characters.
C7_KnockTrimsAllSemicolons ==
    (ServerMessageInHand /\ res[1].Method = StrKNOCK /\ Len(spawned) >= 1)
        => LET p == MapGet(res[1].Headers, StrP)
               d == spawned[1].header
           IN /\ Len(spawned) = 1
              /\ spawned[1].kind = "KNOCK"
              /\ IsPrefix(d, p)
              /\ \A i \in (Len(d) + 1)..Len(p) : p[i] = ";"
              /\ Len(d) > 0 => d[Len(d)] # ";"

\* a KNOCK message whose p ends in two ";" was handed on without either
C7_Witness ==
    /\ ServerMessageInHand
    /\ res[1].Method = StrKNOCK
    /\ MapGet(res[1].Headers, StrP) = DescTcp2 \o <<";", ";">>
    /\ Len(spawned) = 1
    /\ spawned[1].header = DescTcp2
    /\ spawned[1].result = "listening"

\* C8: a spawn that fails to bind or listen, and a relay that fails to dial,
\* change nothing of the primary session: after the failed spawn the session
\* is where a successful spawn would have left it (at the next spawn of the
\* message, or at its forwarding), and the session closes only on an error
\* of its own reads, writes or dial.
C8_SpawnFailureContained ==
    /\ [][(/\ pc = "spawn"
           /\ Len(spawned') = Len(spawned) + 1
           /\ spawned'[Len(spawned')].result \in {"failed", "badport"})
            => /\ crashed' = crashed
               /\ pc' = IF Len(spawned') = Len(SideEffectCalls(res[1]))
                        THEN "writeClient"
                        ELSE "spawn"
               /\ UNCHANGED <<rounds, conn, serverConn, buffer, res, lastRead,
                              wire, listeners, relays>>
          ]_vars
    /\ [][\A r \in 1..Len(relays) :
            (relays[r].pc = "dial" /\ relays'[r].pc = "returned")
                => UNCHANGED <<sessionVars, crashed, listeners>>
          ]_vars
    /\ [](pc = "closed"
            => lastRead.err = "other" \/ wire.err \/ serverConn.state = "none")

\* a SETUP message was forwarded although one of its spawns had failed, and
\* the session stands at its next read
C8_Witness ==
    /\ pc = "readClient"
    /\ ServerMessageInHand
    /\ res[1].Method = StrSETUP
    /\ \E i \in 1..Len(spawned) : spawned[i].result = "failed"
    /\ wire.to = "client"
    /\ ~wire.err
    /\ conn.state = "open"
    /\ serverConn.state = "open"

\* C9: a read that ends on the deadline is no error: the session stays open,
\* decodes nothing, writes nothing, spawns nothing, and goes on with the read
\* of the other leg.
C9_TimeoutIsNoError ==
    [][(/\ pc \in {"readClient", "readServer"}
        /\ pc' # pc
        /\ lastRead'.err = "deadline")
         => /\ pc' = IF pc = "readClient" THEN "readServer" ELSE "readClient"
            /\ conn.state = "open"
            /\ serverConn.state = "open"
            /\ res' = <<>>
            /\ buffer' = <<>>
            /\ UNCHANGED <<conn, serverConn, wire, spawned, listeners,
                           relays, crashed>>
      ]_vars

\* the read of the client timed out and the session reads the destination
C9_Witness ==
    /\ pc = "readServer"
    /\ lastRead = [leg |-> "client", err |-> "deadline"]
    /\ rounds = 2
    /\ conn.state = "open"
    /\ serverConn.state = "open"

\* the port of a descriptor: its last "/"-separated segment
DescriptorPort(header) ==
    LET headerStrings == Split(header, <<"/">>)
    IN headerStrings[Len(headerStrings)]

\* C13: when a SETUP or KNOCK message of the destination has been written to
\* the client (the write may have failed), every spawn attempt the message
\* triggers has been made and has returned, with the socket bound or the
\* listener created, or abandoned; a port that was opened is in the set of
\* listeners before the client can learn it.
C13_SpawnsBeforeForward ==
    (/\ ServerMessageInHand
     /\ wire.to = "client"
     /\ res[1].Method \in {StrSETUP, StrKNOCK})
        => /\ Len(spawned) >= 1
           /\ Len(spawned) = Len(SideEffectCalls(res[1]))
           /\ \A i \in 1..Len(spawned) :
                /\ spawned[i].header = SideEffectCalls(res[1])[i].header
                /\ spawned[i].result \in {"listening", "bound", "failed", "badport"}
                /\ spawned[i].result \in {"listening", "bound"}
                    => \E l \in listeners :
                         /\ l.port = DescriptorPort(spawned[i].header)
                         /\ l.kind = spawned[i].kind

\* a SETUP message reached the client after its stream listener was created
\* and its datagram socket bound
C13_Witness ==
    /\ ServerMessageInHand
    /\ res[1].Method = StrSETUP
    /\ wire.to = "client"
    /\ ~wire.err
    /\ Len(spawned) = 2
    /\ spawned[1].result = "listening"
    /\ spawned[2].result = "bound"
    /\ VideoListener \in listeners
    /\ AudioSocket \in listeners

\* C14: the START message is written to the client under the roles the legs
\* had before the upgrade, and the step that writes changes no role; roles
\* change only after that write has succeeded; a failed write changes no
\* role; wrappers are never taken off, and every later write goes through
\* the wrappers its leg then has.
C14_UpgradeAfterStartWritten ==
    /\ [][(wire' # wire /\ wire'.to = "client")
            => /\ wire'.layers = conn.layers
               /\ conn'.layers = conn.layers
               /\ serverConn'.layers = serverConn.layers]_vars
    /\ [][(wire' # wire /\ wire'.to = "server")
            => /\ wire'.layers = serverConn.layers
               /\ conn'.layers = conn.layers
               /\ serverConn'.layers = serverConn.layers]_vars
    /\ [][(conn'.layers # conn.layers \/ serverConn'.layers # serverConn.layers)
            => /\ wire.to = "client"
               /\ wire.msg.Method = StrSTART
               /\ ~wire.err
               /\ wire.layers = conn.layers
               /\ wire' = wire]_vars
    /\ [][/\ IsPrefix(conn.layers, conn'.layers)
          /\ IsPrefix(serverConn.layers, serverConn'.layers)]_vars
    /\ []((wire.to = "client" /\ wire.err) => conn.layers = wire.layers)

\* in the round after the upgrade a message of the client was written to the
\* destination through the SecureClient wrapper
C14_Witness ==
    /\ wire.to = "server"
    /\ ~wire.err
    /\ wire.layers = <<"SecureClient">>
    /\ Role(serverConn) = "SecureClient"
    /\ Role(conn) = "SecureServer"
    /\ rounds = 2

\* C15: a non-empty payload read from a leg is either being worked on by the
\* running session, nothing else read or written since, or it has been
\* written, once, to the opposite leg; so no payload is dropped, and the
\* next read comes after the write.
C15_EveryPayloadForwarded ==
    (buffer # <<>> /\ lastRead.err = "none" /\ lastRead.leg \in {"client", "server"})
        => \/ /\ ~crashed
              /\ pc \in {"writeServer", "spawn", "writeClient"}
              /\ wire = NoWire
              /\ Len(res) = 1
           \/ /\ Len(res) = 1
              /\ wire.to = IF lastRead.leg = "client" THEN "server" ELSE "client"
              /\ wire.msg = IF lastRead.leg = "client"
                            THEN res[1]
                            ELSE RewriteStart(res[1])

\* a side channel is served: its listener or socket is open in a process
\* that runs
SideChannelServed(l) == l \in listeners /\ ~crashed

\* C17: every side channel that was opened stays served, whatever the primary
\* session does afterwards and however it ends: no step closes a listener or
\* socket or stops a relay that has not returned.
C17_SideChannelsOutliveSession ==
    /\ \A l \in listeners : SideChannelServed(l)
    /\ \A r \in 1..Len(relays) : relays[r].pc # "returned" => ~crashed

\* C19: a SETUP or KNOCK message of the destination never ends the process
\* or the session on account of its headers: no spawn attempt panics, and
\* once the attempts are made the message is written to the client.
C19_HeaderContentNeverFatal ==
    (ServerMessageInHand /\ res[1].Method \in {StrSETUP, StrKNOCK})
        => /\ ~crashed
           /\ \A i \in 1..Len(spawned) : spawned[i].result # "panic"
           /\ pc \in {"spawn", "writeClient"} \/ wire.to = "client"

\* C20: each leg has at most one secure wrapper, so its role is Plain or the
\* one secure role of its side, and a secure leg is not wrapped again.
C20_NoSecondSecureLayer ==
    /\ Len(conn.layers) <= 1
    /\ Len(serverConn.layers) <= 1
    /\ Role(conn) \in {"Plain", "SecureServer"}
    /\ Role(serverConn) \in {"Plain", "SecureClient"}

(***************************************************************************)
(* Properties of the relays.                                               *)
(***************************************************************************)
\* C2: once one copy direction of a relay has stopped, the other direction
\* stops too and the relay completes, whatever its peers do.
C2_OneDirectionEndsBoth ==
    \A r \in 1..MaxStreams :
        (r <= Len(relays) /\ (relays[r].c2s = "done" \/ relays[r].s2c = "done"))
            ~> (/\ r <= Len(relays)
                /\ relays[r].c2s = "done"
                /\ relays[r].s2c = "done"
                /\ relays[r].pc = "returned")

\* C3: a relay that has completed after its two copy directions finished
\* has closed both of its endpoints.
C3_CompletedRelayClosedBoth ==
    \A r \in 1..Len(relays) :
        (relays[r].pc = "returned" /\ relays[r].serverConn # "none")
            => /\ relays[r].c2s = "done"
               /\ relays[r].s2c = "done"
               /\ relays[r].conn = "closed"
               /\ relays[r].serverConn = "closed"

\* C10: in a stream relay the bytes written to the destination are at all
\* times a prefix of the bytes read from the accepted connection, and the
\* bytes written to the accepted connection a prefix of the bytes read from
\* the destination.
C10_StreamRelayForwardsPrefix ==
    \A r \in 1..Len(relays) :
        relays[r].network # StrUdp
            => /\ IsPrefix(relays[r].srvOut, relays[r].connIn)
               /\ IsPrefix(relays[r].connOut, relays[r].srvIn)
               /\ relays[r].connSent = <<>>

\* a stream relay has forwarded two bytes one way and one the other, the
\* second write of which broke off part-way
C10_Witness ==
    \E r \in 1..Len(relays) :
        /\ relays[r].network = StrTcp
        /\ relays[r].srvOut = <<"c1", "c2">>
        /\ relays[r].srvIn = <<"s1", "s2">>
        /\ relays[r].connOut = <<"s1">>
        /\ relays[r].s2c = "done"

(***************************************************************************)
(* Properties of the codec.                                                *)
(***************************************************************************)
\* C11: NewMessage returns a message, possibly a partial one, for every input:
\* it never panics, whether the input has no line break, a single line, only
\* the version line, only the terminator line, or stops after the Seq line.
C11_NewMessageNeverPanics ==
    pc = "decoded" => (~crashed /\ Len(res) = 1)

\* C12: decoding the encoding of a message gives the message back: Version,
\* Sequence, Method, Code and the header mapping are those encoded, whatever
\* the order in which the headers were written, and a request (Code = 0)
\* stays a request, a response (Code > 0) a response.
C12_DecodeEncodeRoundTrip ==
    (pc = "decoded" /\ wire.to = "codec") =>
        /\ ~crashed
        /\ Len(res) = 1
        /\ res[1].Version = wire.msg.Version
        /\ res[1].Sequence = wire.msg.Sequence
        /\ res[1].Method = wire.msg.Method
        /\ res[1].Code = wire.msg.Code
        /\ res[1].Headers = wire.msg.Headers
        /\ (res[1].Code > 0) = (wire.msg.Code > 0)

\* a response with a negative sequence number, a bare header and a header
\* whose value holds "=" went through the codec
C12_Witness ==
    /\ pc = "decoded"
    /\ wire.to = "codec"
    /\ wire.msg.Code = 200
    /\ wire.msg.Sequence = -3
    /\ wire.msg.Method = StrSTART
    /\ DOMAIN wire.msg.Headers = {StrSc, StrSubmit}
    /\ wire.msg.Headers[StrSc] = <<>>
    /\ wire.msg.Headers[StrSubmit] = <<"a", "=", "b">>
    /\ HasLine(wire.bytes, StrSc)
    /\ res = <<wire.msg>>

\* C16: a stream listener goes on accepting: each accepted connection gets a
\* relay of its own, on the port of its listener and with no destination
\* connection yet (it dials its own); a step of one relay, its termination
\* included, changes no other relay and no listener; and what a stream relay
\* writes to its destination connection (to its accepted connection) is a
\* prefix of what it read from its own accepted connection (its own
\* destination connection), never bytes of another relay.
C16_StreamRelaysIndependent ==
    /\ [][Len(relays') # Len(relays)
            => /\ Len(relays') = Len(relays) + 1
               /\ \A q \in 1..Len(relays) : relays'[q] = relays[q]
               /\ listeners' = listeners
               /\ \E l \in listeners :
                    /\ l.network = StrTcp
                    /\ relays'[Len(relays')] = NewRelay(l.network, l.port, l.kind)
               /\ relays'[Len(relays')].serverConn = "none"]_vars
    /\ [][\A r \in 1..Len(relays) :
            relays'[r] # relays[r]
                => /\ listeners' = listeners
                   /\ Len(relays') = Len(relays)
                   /\ \A q \in 1..Len(relays) : q # r => relays'[q] = relays[q]]_vars
    /\ [](\A r \in 1..Len(relays) :
            relays[r].network = StrTcp
                => /\ IsPrefix(relays[r].srvOut, relays[r].connIn)
                   /\ IsPrefix(relays[r].connOut, relays[r].srvIn))

\* two connections were accepted on the VIDEO listener: the relay of the
\* first has returned after forwarding one byte, the relay of the second is
\* still copying and has forwarded two
C16_Witness ==
    /\ Len(relays) = 2
    /\ relays[1].network = StrTcp
    /\ relays[2].network = StrTcp
    /\ relays[1].port = relays[2].port
    /\ relays[1].pc = "returned"
    /\ relays[1].srvOut = <<"c1">>
    /\ relays[2].pc = "copy"
    /\ relays[2].serverConn = "open"
    /\ relays[2].srvOut = <<"c1", "c2">>
    /\ relays[2].connOut = <<"s1">>
    /\ VideoListener \in listeners

\* C18: in a datagram relay every datagram read from the destination is sent
\* on to the client side of the bound socket: what was read from the
\* destination is what was sent to the sender, plus the datagram in hand.
C18_DatagramRepliesReachSender ==
    \A r \in 1..Len(relays) :
        relays[r].network = StrUdp
            => relays[r].connOut \o relays[r].s2cBuf = relays[r].srvIn

====
